---- MODULE Spec2Model ----
(***************************************************************************)
(* rk-gin interceptors: the per-entry registries of the tracing and the    *)
(* metrics interceptor, the label resolution of the metrics interceptor,   *)
(* the request chain (panic -> log -> metrics -> handler) and the timeout  *)
(* interceptor.                                                            *)
(***************************************************************************)
EXTENDS Integers, Sequences, FiniteSets, TLC

VARIABLES
    traceOptionsMap,    \* rkgintrace.optionsMap: entry name -> *optionSet
    traceReturned,      \* the *optionSet the last newOptionSet returned
    traceOptions,       \* history: the option list of that call
    traceCalls,         \* number of newOptionSet calls (instance ids)
    metricsOptionsMap,  \* rkginmetrics.optionsMap: entry name -> *optionSet
    metricsFirst,       \* history: entry name -> set built by the first construction
    metricsBuilt,       \* number of MetricsPromInterceptor calls (instance ids)
    registered,         \* instrument registrations (MetricsSet id, name), in order
    observed,           \* registered MetricsSet id -> observations per instrument
    lastLookup,         \* result of the last accessor call
    pc,                 \* position of the request worker in the chain
    req,                \* the request in flight (gin.Context inputs)
    reqCount,           \* requests started
    panicking,          \* the value of the panic being unwound, or NoPanic
    event,              \* the request's event
    logger,             \* error logs written on the request's logger
    resp,               \* responses written to the client, in order
    ctxErrors,          \* len(ctx.Errors)
    selfPanic,          \* the recovery handler of the panic interceptor panicked
    tpc,                \* timeout interceptor: position of the select
    hpc,                \* timeout interceptor: position of the handler worker
    tEvent,             \* timeout interceptor: counters of the event
    tCommitted,         \* timeout interceptor: responses committed to the client
    tBuffer,            \* timeout interceptor: writes of the handler, buffered
    tCount,             \* timeout interceptor: requests started
    tReq,               \* timeout interceptor: the request in flight
    tClock,             \* timeout interceptor: time since the request entered
    steps,              \* history: the stages of the chain the request has passed
    apc,                \* auth interceptor: position of the request
    aReq,               \* auth interceptor: the request in flight
    aResp,              \* auth interceptor: responses written to the client
    aEvent,             \* auth interceptor: the request's event
    aNext,              \* auth interceptor: invocations of the next stage
    aCount,             \* auth interceptor: requests started
    wpc,                \* racing workers: position of each worker
    wSet,               \* racing workers: the option set each constructor built
    cMap,               \* racing workers: the registry map they share
    cInserted,          \* racing workers: history, the sets stored in the map
    cRegistered,        \* racing workers: instrument registrations, in order
    cAccess,            \* racing workers: the map accesses in progress
    cRace,              \* racing workers: the map was accessed during a write
    shutdowns,          \* exporter -> number of Shutdown calls it received
    shutdownCalls,      \* history: the ShutdownExporters calls made
    gctx,               \* context getters: the *gin.Context handed to them
    lastGet,            \* context getters: the last call and its result
    swaggerJsonFiles,   \* rkgin.swaggerJsonFiles: key -> content of the JSON file
    swConfigFileContents, \* rkgin.swConfigFileContents: the swagger-config.json served
    swEntries,          \* history: the swagger entries constructed, in order
    swServed            \* the last swagger-config.json served

regVars == <<traceOptionsMap, traceReturned, traceOptions, traceCalls, metricsOptionsMap,
             metricsFirst, metricsBuilt, registered, observed, lastLookup>>
chainVars == <<pc, req, reqCount, panicking, event, logger, resp, ctxErrors, selfPanic,
               steps>>
timeoutVars == <<tpc, hpc, tEvent, tCommitted, tBuffer, tCount, tReq, tClock>>
authVars == <<apc, aReq, aResp, aEvent, aNext, aCount>>
raceVars == <<wpc, wSet, cMap, cInserted, cRegistered, cAccess, cRace>>
shutdownVars == <<shutdowns, shutdownCalls>>
getterVars == <<gctx, lastGet>>
swVars == <<swaggerJsonFiles, swConfigFileContents, swEntries, swServed>>
auxVars == <<authVars, raceVars, shutdownVars, getterVars, swVars>>
vars == <<regVars, chainVars, timeoutVars, auxVars>>

\* ---------------------------------------------------------------- bounds

MaxTraceCalls == 2
MaxMetricsBuilt == 2
MaxReq == 2
MaxTimeoutReq == 2
\* The configured durations, in ticks: WithTimeoutAndResp for all paths and
\* WithTimeoutAndRespByPath for /rk/v1/healthy.
TimeoutGlobal == 2
TimeoutHealthy == 1

\* ---------------------------------------------------------------- values

\* A nil pointer or nil interface.
NilPtr == [nil |-> TRUE]

\* The empty registry map (make(map[string]*optionSet)).
EmptyMap == [k \in {} |-> NilPtr]

\* m[k] = v of a Go map.
MapPut(m, k, v) == [x \in DOMAIN m \cup {k} |-> IF x = k THEN v ELSE m[x]]

\* m[k] of a Go map of pointers: nil when the key is missing.
MapGet(m, k) == IF k \in DOMAIN m THEN m[k] ELSE NilPtr

\* strings.HasPrefix
HasPrefix(s, prefix) ==
    Len(s) >= Len(prefix) /\ SubSeq(s, 1, Len(prefix)) = prefix

\* strings.HasSuffix
HasSuffix(s, suffix) ==
    Len(s) >= Len(suffix) /\ SubSeq(s, Len(s) - Len(suffix) + 1, Len(s)) = suffix

\* strings.TrimSuffix
TrimSuffix(s, suffix) ==
    IF HasSuffix(s, suffix) THEN SubSeq(s, 1, Len(s) - Len(suffix)) ELSE s

\* strings.TrimPrefix
TrimPrefix(s, prefix) ==
    IF HasPrefix(s, prefix) THEN SubSeq(s, Len(prefix) + 1, Len(s)) ELSE s

Digit(d) == CASE d = 0 -> "0" [] d = 1 -> "1" [] d = 2 -> "2" [] d = 3 -> "3"
              [] d = 4 -> "4" [] d = 5 -> "5" [] d = 6 -> "6" [] d = 7 -> "7"
              [] d = 8 -> "8" [] d = 9 -> "9"

\* strconv.Itoa, for n >= 0
RECURSIVE Itoa(_)
Itoa(n) == IF n < 10 THEN Digit(n) ELSE Itoa(n \div 10) \o Digit(n % 10)

\* ------------------------------------------------- tracing: option sets

RpcEntryNameValue == "gin"
RpcEntryTypeValue == "gin"

\* CreateNoopExporter: a new &NoopExporter{} on each call
CreateNoopExporter(id) == [kind |-> "noop", id |-> id]

\* sdktrace.NewBatchSpanProcessor(exporter)
NewBatchSpanProcessor(exporter) == [kind |-> "batch", exporter |-> exporter]

\* sdktrace.NewTracerProvider(AlwaysSample, processor, resource attributes)
NewTracerProvider(processor, entryName, entryType) ==
    [kind |-> "sdk", sampler |-> "AlwaysSample", processor |-> processor,
     entryName |-> entryName, entryType |-> entryType]

\* provider.Tracer(name)
ProviderTracer(provider, name) == [provider |-> provider, name |-> name]

\* propagation.NewCompositeTextMapPropagator(TraceContext{}, Baggage{})
DefaultPropagator == [kind |-> "composite", formats |-> <<"tracecontext", "baggage">>]

WithExporter(opt, exporter) ==
    IF exporter # NilPtr THEN [opt EXCEPT !.Exporter = exporter] ELSE opt

WithSpanProcessor(opt, processor) ==
    IF processor # NilPtr THEN [opt EXCEPT !.Processor = processor] ELSE opt

WithTracerProvider(opt, provider) ==
    IF provider # NilPtr THEN [opt EXCEPT !.Provider = provider] ELSE opt

WithPropagator(opt, propagator) ==
    IF propagator # NilPtr THEN [opt EXCEPT !.Propagator = propagator] ELSE opt

TraceWithEntryNameAndType(opt, entryName, entryType) ==
    [opt EXCEPT !.EntryName = entryName, !.EntryType = entryType]

\* The option list of one newOptionSet call: o.named says whether
\* WithEntryNameAndType is among the options; the other four are the
\* arguments of WithExporter, WithSpanProcessor, WithTracerProvider and
\* WithPropagator (NilPtr: not given, or given nil).
TraceApplyOptions(o) ==
    LET s0 == [id |-> 0, EntryName |-> RpcEntryNameValue, EntryType |-> RpcEntryTypeValue,
               Exporter |-> NilPtr, Processor |-> NilPtr, Provider |-> NilPtr,
               Propagator |-> NilPtr, Tracer |-> NilPtr]
        s1 == IF o.named THEN TraceWithEntryNameAndType(s0, o.entryName, o.entryType) ELSE s0
        s2 == WithExporter(s1, o.exporter)
        s3 == WithSpanProcessor(s2, o.processor)
        s4 == WithTracerProvider(s3, o.provider)
    IN  WithPropagator(s4, o.propagator)

\* TraceBuildSet leaving the propagator as the options set it.
TraceBuildSetNoPropagator(o, id) ==
    LET s0 == [TraceApplyOptions(o) EXCEPT !.id = id]
        s1 == IF s0.Exporter = NilPtr
              THEN [s0 EXCEPT !.Exporter = CreateNoopExporter(id)] ELSE s0
        s2 == IF s1.Processor = NilPtr
              THEN [s1 EXCEPT !.Processor = NewBatchSpanProcessor(s1.Exporter)] ELSE s1
        s3 == IF s2.Provider = NilPtr
              THEN [s2 EXCEPT !.Provider =
                        NewTracerProvider(s2.Processor, s2.EntryName, s2.EntryType)]
              ELSE s2
    IN  [s3 EXCEPT !.Tracer = ProviderTracer(s3.Provider, s3.EntryName)]

\* newOptionSet up to the registry step: the option set it builds; id is
\* the identity of the new instance.
TraceBuildSet(o, id) ==
    LET s0 == [TraceApplyOptions(o) EXCEPT !.id = id]
        s1 == IF s0.Exporter = NilPtr
              THEN [s0 EXCEPT !.Exporter = CreateNoopExporter(id)] ELSE s0
        s2 == IF s1.Processor = NilPtr
              THEN [s1 EXCEPT !.Processor = NewBatchSpanProcessor(s1.Exporter)] ELSE s1
        s3 == IF s2.Provider = NilPtr
              THEN [s2 EXCEPT !.Provider =
                        NewTracerProvider(s2.Processor, s2.EntryName, s2.EntryType)]
              ELSE s2
        s4 == [s3 EXCEPT !.Tracer = ProviderTracer(s3.Provider, s3.EntryName)]
    IN  IF s4.Propagator = NilPtr
        THEN [s4 EXCEPT !.Propagator = DefaultPropagator] ELSE s4

\* newOptionSet, the registry step: insert unless the name is present
TraceRegister(m, set) ==
    IF set.EntryName \notin DOMAIN m THEN MapPut(m, set.EntryName, set) ELSE m

\* newOptionSet returns the set it built
newOptionSet(o) ==
    /\ traceCalls < MaxTraceCalls
    /\ LET set == TraceBuildSet(o, traceCalls + 1) IN
        /\ traceOptionsMap' = TraceRegister(traceOptionsMap, set)
        /\ traceReturned' = set
        /\ traceOptions' = o
    /\ traceCalls' = traceCalls + 1
    /\ UNCHANGED <<metricsOptionsMap, metricsFirst, metricsBuilt, registered,
                   observed, lastLookup>>
    /\ UNCHANGED <<chainVars, timeoutVars, auxVars>>

\* ------------------------------------------------- metrics: option sets

RkEntryNameValue == "gin"
RkEntryTypeValue == "gin"

\* prometheus.DefaultRegisterer
DefaultRegisterer == "DefaultRegisterer"

\* a nil prometheus.Registerer
NilRegisterer == "nil"

ElapsedNano == "elapsedNano"
Errors == "errors"
ResCode == "resCode"
unknown == "unknown"

DefaultLabelKeys ==
    <<"entryName", "entryType", "realm", "region", "az", "domain", "instance",
      "appVersion", "appName", "restMethod", "restPath", "type", "resCode">>

\* rkentry.GlobalAppCtx.GetAppInfoEntry() and the deployment facts of rkginbasic
AppName == "rk"
AppVersion == "v0.0.0"
Realm == "*"
Region == "*"
AZ == "*"
Domain == "*"
LocalHostname == "lark.local"

MetricsWithEntryNameAndType(opt, entryName, entryType) ==
    LET s1 == IF Len(entryName) > 0 THEN [opt EXCEPT !.EntryName = entryName] ELSE opt
    IN  IF Len(entryType) > 0 THEN [s1 EXCEPT !.EntryType = entryType] ELSE s1

WithRegisterer(opt, registerer) ==
    IF registerer # NilRegisterer THEN [opt EXCEPT !.Registerer = registerer] ELSE opt

\* rkprom.NewMetricsSet(namespace, subSystem, registerer): a new instance
NewMetricsSet(id, namespace, subSystem, registerer) ==
    [id |-> id, namespace |-> namespace, subSystem |-> subSystem,
     registerer |-> registerer]

\* MetricsPromInterceptor up to the registry step: the option set it builds
\* from the option list o (o.named: WithEntryNameAndType is among the
\* options; o.registerer: the argument of WithRegisterer, nil when absent).
MetricsBuildSet(o, id) ==
    LET s0 == [EntryName |-> RkEntryNameValue, EntryType |-> RkEntryTypeValue,
               Registerer |-> DefaultRegisterer, MetricsSet |-> NilPtr]
        s1 == IF o.named THEN MetricsWithEntryNameAndType(s0, o.entryName, o.entryType)
              ELSE s0
        s2 == WithRegisterer(s1, o.registerer)
    IN  IF Len(s2.EntryName) > 0 /\ s2.Registerer # NilRegisterer
        THEN [s2 EXCEPT !.MetricsSet =
                  NewMetricsSet(id, AppName, s2.EntryName, s2.Registerer)]
        ELSE [s2 EXCEPT !.EntryName = RkEntryNameValue,
                        !.Registerer = DefaultRegisterer,
                        !.MetricsSet =
                  NewMetricsSet(id, AppName, RkEntryNameValue, DefaultRegisterer)]

\* initMetrics: the three instruments registered on the set's MetricsSet
initMetrics(regs, set) ==
    regs \o << [set |-> set.MetricsSet.id, instrument |-> ElapsedNano],
               [set |-> set.MetricsSet.id, instrument |-> Errors],
               [set |-> set.MetricsSet.id, instrument |-> ResCode] >>

\* MetricsRegister storing the new set whether or not the name is present.
MetricsRegisterOverwrite(m, set) == MapPut(m, set.EntryName, set)

\* MetricsPromInterceptor, the registry step: insert unless the name is present
MetricsRegister(m, set) ==
    IF set.EntryName \notin DOMAIN m THEN MapPut(m, set.EntryName, set) ELSE m

\* The observations of a metrics set, by instrument name (ElapsedNano, Errors,
\* ResCode): none yet.
NoCounts == [elapsedNano |-> 0, errors |-> 0, resCode |-> 0]

\* MetricsPromInterceptor registering the instruments at every construction.
MetricsPromInterceptorInitAlways(o) ==
    /\ metricsBuilt < MaxMetricsBuilt
    /\ LET set == MetricsBuildSet(o, metricsBuilt + 1) IN
        /\ metricsOptionsMap' = MetricsRegister(metricsOptionsMap, set)
        /\ registered' = initMetrics(registered, set)
        /\ observed' = IF set.EntryName \notin DOMAIN metricsOptionsMap
                       THEN MapPut(observed, set.MetricsSet.id, NoCounts) ELSE observed
        /\ metricsFirst' = IF set.EntryName \in DOMAIN metricsFirst THEN metricsFirst
                           ELSE MapPut(metricsFirst, set.EntryName, set)
    /\ metricsBuilt' = metricsBuilt + 1
    /\ UNCHANGED <<traceOptionsMap, traceReturned, traceOptions, traceCalls, lastLookup>>
    /\ UNCHANGED <<chainVars, timeoutVars, auxVars>>

\* MetricsPromInterceptor(opts...), the construction
MetricsPromInterceptor(o) ==
    /\ metricsBuilt < MaxMetricsBuilt
    /\ LET set == MetricsBuildSet(o, metricsBuilt + 1) IN
        /\ metricsOptionsMap' = MetricsRegister(metricsOptionsMap, set)
        /\ registered' = IF set.EntryName \notin DOMAIN metricsOptionsMap
                         THEN initMetrics(registered, set) ELSE registered
        /\ observed' = IF set.EntryName \notin DOMAIN metricsOptionsMap
                       THEN MapPut(observed, set.MetricsSet.id, NoCounts) ELSE observed
        /\ metricsFirst' = IF set.EntryName \in DOMAIN metricsFirst THEN metricsFirst
                           ELSE MapPut(metricsFirst, set.EntryName, set)
    /\ metricsBuilt' = metricsBuilt + 1
    /\ UNCHANGED <<traceOptionsMap, traceReturned, traceOptions, traceCalls, lastLookup>>
    /\ UNCHANGED <<chainVars, timeoutVars, auxVars>>

\* ------------------------------------------------- metrics: accessors

\* GetOptionSet answering with a registered set whatever name the context
\* carries.
GetOptionSetAnyEntry(ctx) ==
    IF ctx = NilPtr \/ DOMAIN metricsOptionsMap = {} THEN NilPtr
    ELSE metricsOptionsMap[CHOOSE n \in DOMAIN metricsOptionsMap : TRUE]

\* GetOptionSet(ctx); ctx.entryName is ctx.GetString(RkEntryNameKey), ""
\* when the key is absent
GetOptionSet(ctx) ==
    IF ctx = NilPtr THEN NilPtr ELSE MapGet(metricsOptionsMap, ctx.entryName)

\* GetServerMetricsSet answering with the set of the default entry when the
\* context has no registered entry.
GetServerMetricsSetOrDefault(ctx) ==
    LET set == GetOptionSet(ctx) IN
    IF set # NilPtr THEN set.MetricsSet
    ELSE IF RkEntryNameValue \in DOMAIN metricsOptionsMap
         THEN metricsOptionsMap[RkEntryNameValue].MetricsSet ELSE NilPtr

GetServerMetricsSet(ctx) ==
    LET set == GetOptionSet(ctx) IN
    IF set # NilPtr THEN set.MetricsSet ELSE NilPtr

\* getValues leaving the path empty, not "unknown", when the URL is nil.
getValuesEmptyPath(ctx) ==
    LET hasReq == ctx # NilPtr /\ ctx.Request # NilPtr
        method == IF hasReq THEN ctx.Request.Method ELSE unknown
        path == IF hasReq
                THEN (IF ctx.Request.URL # NilPtr THEN ctx.Request.URL.Path ELSE "")
                ELSE unknown
        resCode == IF hasReq /\ ctx.Writer # NilPtr
                   THEN Itoa(ctx.Writer.status) ELSE unknown
        set == GetOptionSet(ctx)
        entryName == IF set # NilPtr THEN set.EntryName ELSE unknown
        entryType == IF set # NilPtr THEN set.EntryType ELSE unknown
    IN  <<entryName, entryType, Realm, Region, AZ, Domain, LocalHostname,
          AppVersion, AppName, method, path, "ginServer", resCode>>

getValues(ctx) ==
    LET hasReq == ctx # NilPtr /\ ctx.Request # NilPtr
        method == IF hasReq THEN ctx.Request.Method ELSE unknown
        path == IF hasReq /\ ctx.Request.URL # NilPtr
                THEN ctx.Request.URL.Path ELSE unknown
        resCode == IF hasReq /\ ctx.Writer # NilPtr
                   THEN Itoa(ctx.Writer.status) ELSE unknown
        set == GetOptionSet(ctx)
        entryName == IF set # NilPtr THEN set.EntryName ELSE unknown
        entryType == IF set # NilPtr THEN set.EntryType ELSE unknown
    IN  <<entryName, entryType, Realm, Region, AZ, Domain, LocalHostname,
          AppVersion, AppName, method, path, "ginServer", resCode>>

\* metricsSet.GetSummaryWithValues / GetCounterWithValues: the instrument of
\* the set under the label values, nil when the set has no such instrument
InstrumentWithValues(metricsSet, name, values) ==
    IF \E i \in 1..Len(registered) :
           registered[i].set = metricsSet.id /\ registered[i].instrument = name
    THEN [set |-> metricsSet.id, instrument |-> name, values |-> values]
    ELSE NilPtr

GetServerDurationMetrics(ctx) ==
    LET metricsSet == GetServerMetricsSet(ctx) IN
    IF metricsSet # NilPtr
    THEN InstrumentWithValues(metricsSet, ElapsedNano, getValues(ctx)) ELSE NilPtr

GetServerErrorMetrics(ctx) ==
    IF ctx = NilPtr THEN NilPtr
    ELSE LET metricsSet == GetServerMetricsSet(ctx) IN
         IF metricsSet # NilPtr
         THEN InstrumentWithValues(metricsSet, Errors, getValues(ctx)) ELSE NilPtr

GetServerResCodeMetrics(ctx) ==
    IF ctx = NilPtr THEN NilPtr
    ELSE LET metricsSet == GetServerMetricsSet(ctx) IN
         IF metricsSet # NilPtr
         THEN InstrumentWithValues(metricsSet, ResCode, getValues(ctx)) ELSE NilPtr

\* One call of an accessor with the context ctx; the result is kept.
AccessorCall(ctx) ==
    /\ \E fn \in {"GetOptionSet", "GetServerMetricsSet", "getValues",
                  "GetServerDurationMetrics", "GetServerErrorMetrics",
                  "GetServerResCodeMetrics"} :
        lastLookup' = [fn |-> fn, ctx |-> ctx, at |-> metricsBuilt,
                       result |-> CASE fn = "GetOptionSet" -> GetOptionSet(ctx)
                                    [] fn = "GetServerMetricsSet" -> GetServerMetricsSet(ctx)
                                    [] fn = "getValues" -> getValues(ctx)
                                    [] fn = "GetServerDurationMetrics" ->
                                           GetServerDurationMetrics(ctx)
                                    [] fn = "GetServerErrorMetrics" ->
                                           GetServerErrorMetrics(ctx)
                                    [] fn = "GetServerResCodeMetrics" ->
                                           GetServerResCodeMetrics(ctx)]
    /\ UNCHANGED <<traceOptionsMap, traceReturned, traceOptions, traceCalls, metricsOptionsMap,
                   metricsFirst, metricsBuilt, registered, observed>>
    /\ UNCHANGED <<chainVars, timeoutVars, auxVars>>

\* ------------------------------------------------- the request chain

NoPanic == [type |-> "none"]

\* rkerror.ErrorResp values
InternalError(message) ==
    [Err |-> [Code |-> 500, Status |-> "Internal Server Error",
              Message |-> message, Details |-> <<>>]]

\* rkerror.FromError(err)
FromError(err) == InternalError(err.text)

\* fmt.Sprintf("%v", recv)
Sprintv(recv) == IF recv.type = "int" THEN Itoa(recv.value) ELSE recv.text

\* rkerror.New(rkerror.WithMessage(fmt.Sprintf("%v", recv)))
NewWithMessage(recv) == InternalError(Sprintv(recv))

\* The values a downstream stage panics with: a *rkerror.ErrorResp (nil or
\* not), an error, a string, an int, and panic(nil).
PanicValues ==
    { [type |-> "*ErrorResp", isNil |-> FALSE, text |-> "teapot",
       resp |-> [Err |-> [Code |-> 418, Status |-> "I'm a teapot",
                          Message |-> "teapot", Details |-> <<>>]]],
      [type |-> "*ErrorResp", isNil |-> TRUE, text |-> "<nil>"],
      [type |-> "error", isNil |-> FALSE, text |-> "db down"],
      [type |-> "string", isNil |-> FALSE, text |-> "boom"],
      [type |-> "int", isNil |-> FALSE, value |-> 42],
      [type |-> "nil", isNil |-> TRUE, text |-> "<nil>"] }

\* recover(): the recovered value. For panic(nil) the runtime hands back nil
\* (Go before 1.21) or a *runtime.PanicNilError, which is an error.
Recover(v) ==
    IF v.type = "nil"
    THEN { NilPtr, [type |-> "error", isNil |-> FALSE,
                    text |-> "panic called with nil argument"] }
    ELSE { v }

\* PanicResponse building a new response whatever the value is.
PanicResponseAlwaysNew(recv) == NewWithMessage(recv)

\* The type switch of the panic interceptor: the *rkerror.ErrorResp for recv
PanicResponse(recv) ==
    IF recv.type = "*ErrorResp"
    THEN (IF recv.isNil THEN NilPtr ELSE [Err |-> recv.resp.Err])
    ELSE IF recv.type = "error" THEN FromError(recv)
    ELSE NewWithMessage(recv)

NoEvent == [opened |-> 0, closed |-> 0, counters |-> <<>>, errs |-> <<>>]

\* The request paths of the model.
RequestURIs ==
    { "/sw", "/sw/", "/sw/swagger-config.json", "/rk/v1/assets/sw/css/x.css",
      "/rk/v1/tv", "/svc/hello?name=x" }

\* url.URL.Path of a request URI: the part before the query
RECURSIVE UrlPath(_)
UrlPath(uri) ==
    IF Len(uri) = 0 \/ SubSeq(uri, 1, 1) = "?" THEN ""
    ELSE SubSeq(uri, 1, 1) \o UrlPath(SubSeq(uri, 2, Len(uri)))

\* The entry names an upstream interceptor stores in the context; "": none
\* is installed.
ChainEntries == {"", "svcA", "svcB"}

\* The gin.Context of the request in flight, as the accessors read it
Ctx ==
    [Request |-> [Method |-> "GET", URL |-> [Path |-> UrlPath(req.RequestURI)],
                  RequestURI |-> req.RequestURI],
     Writer |-> [status |-> IF resp = <<>> THEN 200 ELSE resp[Len(resp)].status],
     entryName |-> req.entryName,
     Errors |-> ctxErrors]

\* SwEntry.ConfigFileHandler: what the swagger handler serves for a path
ConfigFileHandler(path) ==
    LET p == TrimSuffix(path, "/") IN
    IF p = "/sw" THEN [status |-> 200, body |-> "index.html"]
    ELSE IF p = "/sw/swagger-config.json"
         THEN [status |-> 200, body |-> "swagger-config.json"]
         ELSE [status |-> 404, body |-> TrimPrefix(p, "/sw/")]

\* The routes of the entry: the swagger UI, the assets, the tv pages, the rest
Route(path) ==
    IF path = "/sw" \/ HasPrefix(path, "/sw/") THEN "sw"
    ELSE IF HasPrefix(path, "/rk/v1/assets") THEN "assets"
    ELSE IF HasPrefix(path, "/rk/v1/tv") THEN "tv"
    ELSE "user"

\* MetricsIgnored without the check of the swagger prefix.
MetricsIgnoredNoSw(uri) ==
    \/ HasPrefix(uri, "/rk/v1/assets")
    \/ HasPrefix(uri, "/rk/v1/tv")

\* The paths the metrics interceptor leaves out
MetricsIgnored(uri) ==
    \/ HasPrefix(uri, "/rk/v1/assets")
    \/ HasPrefix(uri, "/rk/v1/tv")
    \/ HasPrefix(uri, "/sw/")

\* A request enters the chain panic -> log -> metrics -> handler. The
\* metrics interceptor exists once MetricsPromInterceptor was called;
\* metricsEntry is the entry that the interceptor of this chain was
\* constructed for, which the handler function it returned does not keep.
StartRequest ==
    /\ pc \in {"idle", "done"}
    /\ reqCount < MaxReq
    /\ metricsBuilt > 0
    /\ \E uri \in RequestURIs, logEntry \in ChainEntries,
          metricsEntry \in DOMAIN metricsOptionsMap :
        req' = [RequestURI |-> uri, logEntry |-> logEntry, entryName |-> "",
                panic |-> NoPanic, metricsEntry |-> metricsEntry]
    /\ reqCount' = reqCount + 1
    /\ pc' = "panicPre"
    /\ panicking' = NoPanic
    /\ event' = NoEvent
    /\ logger' = <<>>
    /\ resp' = <<>>
    /\ ctxErrors' = 0
    /\ selfPanic' = FALSE
    /\ steps' = <<>>
    /\ UNCHANGED <<regVars, timeoutVars, auxVars>>

\* panic interceptor: the recovery is deferred, then ctx.Next()
PanicPre ==
    /\ pc = "panicPre"
    /\ steps' = Append(steps, "panicPre")
    /\ pc' = IF req.logEntry = "" THEN "metricsPre" ELSE "logPre"
    /\ UNCHANGED <<req, reqCount, panicking, event, logger, resp, ctxErrors, selfPanic>>
    /\ UNCHANGED <<regVars, timeoutVars, auxVars>>

\* log interceptor, on entry: opens the event and attaches it, the logger
\* and the entry identity to the context
LogPre ==
    /\ pc = "logPre"
    /\ steps' = Append(steps, "logPre")
    /\ event' = [event EXCEPT !.opened = @ + 1]
    /\ req' = [req EXCEPT !.entryName = req.logEntry]
    /\ pc' = "metricsPre"
    /\ UNCHANGED <<reqCount, panicking, logger, resp, ctxErrors, selfPanic>>
    /\ UNCHANGED <<regVars, timeoutVars, auxVars>>

\* MetricsPre going on to the post-logic without calling ctx.Next().
MetricsPreWithoutNext ==
    /\ pc = "metricsPre"
    /\ steps' = Append(steps, "metricsPre")
    /\ pc' = "metricsPost"
    /\ UNCHANGED <<req, reqCount, panicking, event, logger, resp, ctxErrors, selfPanic>>
    /\ UNCHANGED <<regVars, timeoutVars, auxVars>>

\* metrics interceptor, before ctx.Next(): the start time is taken
MetricsPre ==
    /\ pc = "metricsPre"
    /\ steps' = Append(steps, "metricsPre")
    /\ pc' = "handler"
    /\ UNCHANGED <<req, reqCount, panicking, event, logger, resp, ctxErrors, selfPanic>>
    /\ UNCHANGED <<regVars, timeoutVars, auxVars>>

\* Where a panic raised below the metrics interceptor is caught next: the
\* metrics interceptor defers nothing
UnwindFromHandler == IF req.logEntry = "" THEN "panicPost" ELSE "logPost"

\* The handler of the route returns normally
HandlerReturns ==
    /\ pc = "handler"
    /\ steps' = Append(steps, "handlerReturned")
    /\ LET route == Route(Ctx.Request.URL.Path) IN
        \/ /\ route = "sw"
           /\ resp' = Append(resp, ConfigFileHandler(Ctx.Request.URL.Path))
           /\ ctxErrors' = ctxErrors
        \/ /\ route \in {"assets", "tv"}
           /\ resp' = Append(resp, [status |-> 200, body |-> route])
           /\ ctxErrors' = ctxErrors
        \/ /\ route = "user"
           /\ \/ /\ resp' = Append(resp, [status |-> 200, body |-> "hello"])
                 /\ ctxErrors' = ctxErrors
              \/ /\ resp' = Append(resp, [status |-> 400, body |-> "bad request"])
                 /\ ctxErrors' = ctxErrors + 1
    /\ pc' = "metricsPost"
    /\ UNCHANGED <<req, reqCount, panicking, event, logger, selfPanic>>
    /\ UNCHANGED <<regVars, timeoutVars, auxVars>>

\* The user handler panics
HandlerPanics ==
    /\ pc = "handler"
    /\ steps' = Append(steps, "handlerPanicked")
    /\ Route(Ctx.Request.URL.Path) = "user"
    /\ \E v \in PanicValues :
        /\ panicking' = v
        /\ req' = [req EXCEPT !.panic = v]
    /\ pc' = UnwindFromHandler
    /\ UNCHANGED <<reqCount, event, logger, resp, ctxErrors, selfPanic>>
    /\ UNCHANGED <<regVars, timeoutVars, auxVars>>

\* instrument.Observe / Inc on a non-nil instrument
Record(obs, instrument) ==
    IF instrument = NilPtr THEN obs
    ELSE [obs EXCEPT ![instrument.set][instrument.instrument] = @ + 1]

\* MetricsObserve counting an error for every request.
MetricsObserveErrorsAlways(obs, ctx) ==
    IF MetricsIgnored(ctx.Request.RequestURI) THEN obs
    ELSE LET o1 == Record(obs, GetServerDurationMetrics(ctx))
             o2 == Record(o1, GetServerErrorMetrics(ctx))
         IN  Record(o2, GetServerResCodeMetrics(ctx))

\* metrics interceptor, after ctx.Next() has returned
MetricsObserve(obs, ctx) ==
    IF MetricsIgnored(ctx.Request.RequestURI) THEN obs
    ELSE LET o1 == Record(obs, GetServerDurationMetrics(ctx))
             o2 == IF ctx.Errors > 0 THEN Record(o1, GetServerErrorMetrics(ctx)) ELSE o1
         IN  Record(o2, GetServerResCodeMetrics(ctx))

MetricsPost ==
    /\ pc = "metricsPost"
    /\ steps' = Append(steps, "metricsPost")
    /\ observed' = MetricsObserve(observed, Ctx)
    /\ pc' = IF req.logEntry = "" THEN "panicPost" ELSE "logPost"
    /\ UNCHANGED <<traceOptionsMap, traceReturned, traceOptions, traceCalls, metricsOptionsMap,
                   metricsFirst, metricsBuilt, registered, lastLookup>>
    /\ UNCHANGED <<req, reqCount, panicking, event, logger, resp, ctxErrors, selfPanic>>
    /\ UNCHANGED <<timeoutVars, auxVars>>

\* LogPost closing the event on the normal return only.
LogPostOnReturnOnly ==
    /\ pc = "logPost"
    /\ steps' = Append(steps, "logPost")
    /\ event' = IF panicking = NoPanic THEN [event EXCEPT !.closed = @ + 1] ELSE event
    /\ pc' = "panicPost"
    /\ UNCHANGED <<req, reqCount, panicking, logger, resp, ctxErrors, selfPanic>>
    /\ UNCHANGED <<regVars, timeoutVars, auxVars>>

\* log interceptor, on exit: the event is closed in a scope that runs on
\* every exit path, a panic passing through included
LogPost ==
    /\ pc = "logPost"
    /\ steps' = Append(steps, "logPost")
    /\ event' = [event EXCEPT !.closed = @ + 1]
    /\ pc' = "panicPost"
    /\ UNCHANGED <<req, reqCount, panicking, logger, resp, ctxErrors, selfPanic>>
    /\ UNCHANGED <<regVars, timeoutVars, auxVars>>

\* rkginctx.GetEvent(ctx).SetCounter(key, 1): the no-op event when the
\* context carries none
SetCounter(ev, key) ==
    IF req.logEntry = "" THEN ev ELSE [ev EXCEPT !.counters = Append(@, key)]

\* rkginctx.GetEvent(ctx).AddErr(err)
AddErr(ev, err) ==
    IF req.logEntry = "" THEN ev ELSE [ev EXCEPT !.errs = Append(@, err)]

\* rkginctx.GetLogger(ctx).Error(msg, zap.Error(err)): the no-op logger when
\* the context carries none
LoggerError(lg, err) ==
    IF req.logEntry = "" THEN lg ELSE Append(lg, [level |-> "error", err |-> err])

\* panic interceptor: the deferred function. No panic, or a recovered nil:
\* nothing is done. Otherwise the response for recv is built and used; a
\* nil response makes res.Err a nil dereference, a panic of the deferred
\* function itself, which leaves the interceptor.
PanicRecovery(recv) ==
    IF recv = NilPtr
    THEN /\ panicking' = NoPanic
         /\ UNCHANGED <<event, logger, resp, selfPanic>>
    ELSE LET res == PanicResponse(recv) IN
         IF res = NilPtr
         THEN /\ event' = SetCounter(event, "panic")
              /\ selfPanic' = TRUE
              /\ panicking' = [type |-> "error", isNil |-> FALSE,
                               text |-> "nil pointer dereference"]
              /\ UNCHANGED <<logger, resp>>
         ELSE /\ event' = AddErr(SetCounter(event, "panic"), res.Err)
              /\ logger' = LoggerError(logger, res.Err)
              /\ resp' = Append(resp, [status |-> 500, body |-> res])
              /\ panicking' = NoPanic
              /\ UNCHANGED selfPanic

PanicPost ==
    /\ pc = "panicPost"
    /\ steps' = Append(steps, "panicPost")
    /\ IF panicking = NoPanic
       THEN UNCHANGED <<panicking, event, logger, resp, selfPanic>>
       ELSE \E recv \in Recover(panicking) : PanicRecovery(recv)
    /\ pc' = "done"
    /\ UNCHANGED <<req, reqCount, ctxErrors>>
    /\ UNCHANGED <<regVars, timeoutVars, auxVars>>

\* ------------------------------------------------- timeout interceptor

\* The counters of the event before the timeout interceptor acts.
NoTimeout == [timeout |-> 0]

\* The response of the default timeout handler.
TimeoutResponse ==
    [status |-> 408,
     body |-> [Err |-> [Code |-> 408, Status |-> "Request Timeout",
                        Message |-> "Request timed out!", Details |-> <<>>]]]

NoWrites == [held |-> <<>>, dropped |-> 0]

\* The paths requested, and the duration configured for each.
TimeoutPaths == {"/rk/v1/greeter", "/rk/v1/healthy"}

TimeoutOf(path) == IF path = "/rk/v1/healthy" THEN TimeoutHealthy ELSE TimeoutGlobal

MaxClock == TimeoutGlobal + 1

\* What the next stage writes.
HandlerResponses ==
    { [status |-> 200, body |-> "Hello rk-dev!"],
      [status |-> 500, body |-> "failed"] }

\* A request enters the timeout interceptor: the next stage starts on a
\* worker of its own, with a writer that holds its output back, and the
\* interceptor waits for the first of: the stage finished, the duration over.
TimeoutStart ==
    /\ tpc \in {"idle", "finished", "timedOut"}
    /\ hpc \in {"idle", "returned"}
    /\ tCount < MaxTimeoutReq
    /\ tCount' = tCount + 1
    /\ tpc' = "waiting"
    /\ hpc' = "running"
    /\ tEvent' = NoTimeout
    /\ tCommitted' = <<>>
    /\ tBuffer' = NoWrites
    /\ \E path \in TimeoutPaths : tReq' = [path |-> path]
    /\ tClock' = 0
    /\ UNCHANGED <<regVars, chainVars, auxVars>>

\* Time passes while the interceptor waits
TimeoutTick ==
    /\ tpc = "waiting"
    /\ tClock < MaxClock
    /\ tClock' = tClock + 1
    /\ UNCHANGED <<tpc, hpc, tEvent, tCommitted, tBuffer, tCount, tReq>>
    /\ UNCHANGED <<regVars, chainVars, auxVars>>

\* The writer handed to the next stage: output is held back until the
\* stage has finished, and dropped once the timeout response is committed
TimeoutWriterWrite(buf, timedOut, w) ==
    IF timedOut THEN [buf EXCEPT !.dropped = @ + 1]
    ELSE [buf EXCEPT !.held = Append(@, w)]

\* The next stage writes its response, before or after the expiry
TimeoutHandlerWrites ==
    /\ hpc = "running"
    /\ \E w \in HandlerResponses :
        tBuffer' = TimeoutWriterWrite(tBuffer, tpc = "timedOut", w)
    /\ hpc' = "wrote"
    /\ UNCHANGED <<tpc, tEvent, tCommitted, tCount, tReq, tClock>>
    /\ UNCHANGED <<regVars, chainVars, auxVars>>

\* The next stage returns, before or after the expiry: the worker is
\* never terminated
TimeoutHandlerReturns ==
    /\ hpc \in {"running", "wrote"}
    /\ hpc' = "returned"
    /\ UNCHANGED <<tpc, tEvent, tCommitted, tBuffer, tCount, tReq, tClock>>
    /\ UNCHANGED <<regVars, chainVars, auxVars>>

\* TimeoutFinished writing the output of the stage also after the expiry.
TimeoutFinishedLate ==
    /\ tpc \in {"waiting", "timedOut"}
    /\ hpc = "returned"
    /\ tCommitted' = Append(tCommitted,
                            IF tBuffer.held = <<>> THEN [status |-> 200, body |-> ""]
                            ELSE tBuffer.held[1])
    /\ tpc' = "finished"
    /\ UNCHANGED <<hpc, tEvent, tBuffer, tCount, tReq, tClock>>
    /\ UNCHANGED <<regVars, chainVars, auxVars>>

\* The interceptor sees the stage finished first: its output is committed
TimeoutFinished ==
    /\ tpc = "waiting"
    /\ hpc = "returned"
    /\ tCommitted' = Append(tCommitted,
                            IF tBuffer.held = <<>> THEN [status |-> 200, body |-> ""]
                            ELSE tBuffer.held[1])
    /\ tpc' = "finished"
    /\ UNCHANGED <<hpc, tEvent, tBuffer, tCount, tReq, tClock>>
    /\ UNCHANGED <<regVars, chainVars, auxVars>>

\* The interceptor sees the duration over first: the timeout response is
\* committed and the counter set; the stage keeps running
TimeoutExpired ==
    /\ tpc = "waiting"
    /\ tClock >= TimeoutOf(tReq.path)
    /\ tEvent' = [tEvent EXCEPT !.timeout = 1]
    /\ tCommitted' = Append(tCommitted, TimeoutResponse)
    /\ tpc' = "timedOut"
    /\ UNCHANGED <<hpc, tBuffer, tCount, tReq, tClock>>
    /\ UNCHANGED <<regVars, chainVars, auxVars>>

\* ------------------------------------------------- auth interceptor

MaxAuthReq == 2

\* The allow-lists of the interceptor: WithBasicAuth("", "rk-user:rk-pass"),
\* WithBearerAuth("rk-token"), WithApiKeyAuth("rk-api-key").
BasicCredentials == {"rk-user:rk-pass"}
BearerTokens == {"rk-token"}
ApiKeys == {"rk-api-key"}

\* base64 of the user:pass pairs that clients send.
Base64Decode(b) ==
    CASE b = "cmstdXNlcjpyay1wYXNz" -> "rk-user:rk-pass"
      [] b = "bWFsbG9yeTpndWVzcw==" -> "mallory:guess"
      [] OTHER -> ""

\* The Authorization and X-API-Key headers of the requests; "": header absent.
AuthorizationHeaders ==
    {"", "Basic cmstdXNlcjpyay1wYXNz", "Basic bWFsbG9yeTpndWVzcw==",
     "Bearer rk-token", "Bearer stale-token"}
ApiKeyHeaders == {"", "rk-api-key", "stale-key"}

\* The structured error body of a refused request.
Unauthorized(message) ==
    [Err |-> [Code |-> 401, Status |-> "Unauthorized", Message |-> message,
              Details |-> <<>>]]

NoAuthEvent == [opened |-> 0, closed |-> 0, resCode |-> 0]

\* A credential presented in the Authorization header is in its allow-list
AuthorizationAccepted(h) ==
    \/ HasPrefix(h, "Basic ") /\ Base64Decode(TrimPrefix(h, "Basic ")) \in BasicCredentials
    \/ HasPrefix(h, "Bearer ") /\ TrimPrefix(h, "Bearer ") \in BearerTokens

\* A request enters the chain log -> auth -> handler
AuthStart ==
    /\ apc \in {"idle", "done"}
    /\ aCount < MaxAuthReq
    /\ \E h \in AuthorizationHeaders, k \in ApiKeyHeaders :
        aReq' = [Authorization |-> h, ApiKey |-> k]
    /\ aCount' = aCount + 1
    /\ apc' = "logPre"
    /\ aResp' = <<>>
    /\ aEvent' = NoAuthEvent
    /\ aNext' = 0
    /\ UNCHANGED <<regVars, chainVars, timeoutVars, raceVars, shutdownVars, getterVars, swVars>>

\* log interceptor, on entry: the event is opened
AuthLogPre ==
    /\ apc = "logPre"
    /\ aEvent' = [aEvent EXCEPT !.opened = @ + 1]
    /\ apc' = "auth"
    /\ UNCHANGED <<aReq, aResp, aNext, aCount>>
    /\ UNCHANGED <<regVars, chainVars, timeoutVars, raceVars, shutdownVars, getterVars, swVars>>

\* AuthInterceptor answering 401 and still invoking the next stage.
AuthInterceptorNoAbort ==
    /\ apc = "auth"
    /\ IF AuthorizationAccepted(aReq.Authorization) \/ aReq.ApiKey \in ApiKeys
       THEN aResp' = aResp
       ELSE aResp' = Append(aResp, [status |-> 401,
                        body |-> Unauthorized(IF aReq.Authorization = "" /\ aReq.ApiKey = ""
                                              THEN "Missing authorization"
                                              ELSE "Invalid credential")])
    /\ apc' = "handler"
    /\ UNCHANGED <<aReq, aEvent, aNext, aCount>>
    /\ UNCHANGED <<regVars, chainVars, timeoutVars, raceVars, shutdownVars, getterVars, swVars>>

\* auth interceptor: a request with an accepted credential goes on to the
\* next stage; any other is answered 401 and the chain is aborted
AuthInterceptor ==
    /\ apc = "auth"
    /\ IF AuthorizationAccepted(aReq.Authorization) \/ aReq.ApiKey \in ApiKeys
       THEN /\ apc' = "handler"
            /\ aResp' = aResp
       ELSE /\ aResp' = Append(aResp, [status |-> 401,
                        body |-> Unauthorized(IF aReq.Authorization = "" /\ aReq.ApiKey = ""
                                              THEN "Missing authorization"
                                              ELSE "Invalid credential")])
            /\ apc' = "logPost"
    /\ UNCHANGED <<aReq, aEvent, aNext, aCount>>
    /\ UNCHANGED <<regVars, chainVars, timeoutVars, raceVars, shutdownVars, getterVars, swVars>>

\* The handler behind the auth interceptor; it writes unless a response
\* was written before it
AuthHandler ==
    /\ apc = "handler"
    /\ aNext' = aNext + 1
    /\ aResp' = Append(aResp, [status |-> 200, body |-> "Hello rk-dev!"])
    /\ apc' = "logPost"
    /\ UNCHANGED <<aReq, aEvent, aCount>>
    /\ UNCHANGED <<regVars, chainVars, timeoutVars, raceVars, shutdownVars, getterVars, swVars>>

\* log interceptor, on exit: the response code of the first response
\* written is recorded and the event closed
AuthLogPost ==
    /\ apc = "logPost"
    /\ aEvent' = [aEvent EXCEPT !.closed = @ + 1, !.resCode = aResp[1].status]
    /\ apc' = "done"
    /\ UNCHANGED <<aReq, aResp, aNext, aCount>>
    /\ UNCHANGED <<regVars, chainVars, timeoutVars, raceVars, shutdownVars, getterVars, swVars>>

\* ------------------------------------------------- registries: racing workers

\* Two workers that construct a metrics interceptor and one that serves a
\* request, all on the registry map of the metrics interceptor. The map is a
\* plain Go map: an access takes time, and nothing orders the accesses of
\* different workers.
Constructors == {"boot1", "boot2"}
Readers == {"request"}
Workers == Constructors \cup Readers

\* The identity of the option set a constructor builds.
RaceSetId(w) == IF w = "boot1" THEN 1 ELSE 2

\* Another worker is writing the map / accessing the map.
OtherWrites(w) == \E a \in cAccess : a.worker # w /\ a.kind = "write"
OtherAccesses(w) == \E a \in cAccess : a.worker # w

\* MetricsPromInterceptor up to the registry step, on worker w
RaceBuild(w, o) ==
    /\ wpc[w] = "idle"
    /\ wSet' = [wSet EXCEPT ![w] = MetricsBuildSet(o, RaceSetId(w))]
    /\ wpc' = [wpc EXCEPT ![w] = "built"]
    /\ UNCHANGED <<cMap, cInserted, cRegistered, cAccess, cRace>>
    /\ UNCHANGED <<regVars, chainVars, timeoutVars, authVars, shutdownVars, getterVars, swVars>>

\* _, ok := optionsMap[set.EntryName]: the read starts
RaceCheckBegin(w) ==
    /\ wpc[w] = "built"
    /\ cAccess' = cAccess \cup {[worker |-> w, kind |-> "read"]}
    /\ cRace' = (cRace \/ OtherWrites(w))
    /\ wpc' = [wpc EXCEPT ![w] = "checking"]
    /\ UNCHANGED <<wSet, cMap, cInserted, cRegistered>>
    /\ UNCHANGED <<regVars, chainVars, timeoutVars, authVars, shutdownVars, getterVars, swVars>>

\* ... and ends: ok as the map has it; a read that overlaps a write of
\* another worker may see either
RaceCheckEnd(w) ==
    /\ wpc[w] = "checking"
    /\ \E ok \in IF OtherWrites(w) THEN BOOLEAN
                 ELSE {wSet[w].EntryName \in DOMAIN cMap} :
        wpc' = [wpc EXCEPT ![w] = IF ok THEN "done" ELSE "absent"]
    /\ cAccess' = cAccess \ {[worker |-> w, kind |-> "read"]}
    /\ UNCHANGED <<wSet, cMap, cInserted, cRegistered, cRace>>
    /\ UNCHANGED <<regVars, chainVars, timeoutVars, authVars, shutdownVars, getterVars, swVars>>

\* optionsMap[set.EntryName] = set: the write starts
RaceInsertBegin(w) ==
    /\ wpc[w] = "absent"
    /\ cAccess' = cAccess \cup {[worker |-> w, kind |-> "write"]}
    /\ cRace' = (cRace \/ OtherAccesses(w))
    /\ wpc' = [wpc EXCEPT ![w] = "inserting"]
    /\ UNCHANGED <<wSet, cMap, cInserted, cRegistered>>
    /\ UNCHANGED <<regVars, chainVars, timeoutVars, authVars, shutdownVars, getterVars, swVars>>

\* ... and ends: the set is stored
RaceInsertEnd(w) ==
    /\ wpc[w] = "inserting"
    /\ cMap' = MapPut(cMap, wSet[w].EntryName, wSet[w])
    /\ cInserted' = Append(cInserted, wSet[w])
    /\ cAccess' = cAccess \ {[worker |-> w, kind |-> "write"]}
    /\ wpc' = [wpc EXCEPT ![w] = "init"]
    /\ UNCHANGED <<wSet, cRegistered, cRace>>
    /\ UNCHANGED <<regVars, chainVars, timeoutVars, authVars, shutdownVars, getterVars, swVars>>

\* initMetrics(set) of the worker that stored its set
RaceInit(w) ==
    /\ wpc[w] = "init"
    /\ cRegistered' = initMetrics(cRegistered, wSet[w])
    /\ wpc' = [wpc EXCEPT ![w] = "done"]
    /\ UNCHANGED <<wSet, cMap, cInserted, cAccess, cRace>>
    /\ UNCHANGED <<regVars, chainVars, timeoutVars, authVars, shutdownVars, getterVars, swVars>>

\* GetOptionSet(ctx) on a request worker: the read starts
RaceLookupBegin(w) ==
    /\ wpc[w] = "idle"
    /\ cAccess' = cAccess \cup {[worker |-> w, kind |-> "read"]}
    /\ cRace' = (cRace \/ OtherWrites(w))
    /\ wpc' = [wpc EXCEPT ![w] = "reading"]
    /\ UNCHANGED <<wSet, cMap, cInserted, cRegistered>>
    /\ UNCHANGED <<regVars, chainVars, timeoutVars, authVars, shutdownVars, getterVars, swVars>>

\* ... and ends: optionsMap[entryName]; a read that overlaps a write may
\* return nil, the stored set or the set being stored
RaceLookupEnd(w, entryName) ==
    /\ wpc[w] = "reading"
    /\ \E r \in IF OtherWrites(w)
                THEN {NilPtr, MapGet(cMap, entryName)} \cup
                     {wSet[a.worker] : a \in {b \in cAccess : b.kind = "write"}}
                ELSE {MapGet(cMap, entryName)} :
        wSet' = [wSet EXCEPT ![w] = r]
    /\ cAccess' = cAccess \ {[worker |-> w, kind |-> "read"]}
    /\ wpc' = [wpc EXCEPT ![w] = "done"]
    /\ UNCHANGED <<cMap, cInserted, cRegistered, cRace>>
    /\ UNCHANGED <<regVars, chainVars, timeoutVars, authVars, shutdownVars, getterVars, swVars>>

\* The runtime notices a map write that overlaps another access and ends
\* the process (fatal error: concurrent map writes / read and map write)
RaceFatal ==
    /\ \E a \in cAccess : a.kind = "write" /\ OtherAccesses(a.worker)
    /\ wpc' = [w \in Workers |-> "fatal"]
    /\ cAccess' = {}
    /\ UNCHANGED <<wSet, cMap, cInserted, cRegistered, cRace>>
    /\ UNCHANGED <<regVars, chainVars, timeoutVars, authVars, shutdownVars, getterVars, swVars>>

\* ------------------------------------------------- tracing: shutdown

MaxShutdownCalls == 2

\* exporter.Shutdown(ctx): one more Shutdown call counted for each exporter
\* of calls, a sequence of exporters
RECURSIVE ShutdownAll(_, _)
ShutdownAll(counts, calls) ==
    IF calls = <<>> THEN counts
    ELSE LET e == Head(calls) IN
         ShutdownAll(MapPut(counts, e, IF e \in DOMAIN counts THEN counts[e] + 1 ELSE 1),
                     Tail(calls))

\* The values of a map, in the order of an iteration over it.
RECURSIVE MapRange(_, _)
MapRange(m, keys) ==
    IF keys = {} THEN <<>>
    ELSE LET k == CHOOSE x \in keys : TRUE IN
         <<m[k]>> \o MapRange(m, keys \ {k})

\* ShutdownExporters(): v.Exporter.Shutdown for every v of optionsMap
ShutdownExporters ==
    /\ Len(shutdownCalls) < MaxShutdownCalls
    /\ LET sets == MapRange(traceOptionsMap, DOMAIN traceOptionsMap) IN
        shutdowns' = ShutdownAll(shutdowns, [i \in 1..Len(sets) |-> sets[i].Exporter])
    /\ shutdownCalls' = Append(shutdownCalls, [at |-> traceCalls])
    /\ UNCHANGED <<regVars, chainVars, timeoutVars, authVars, raceVars, getterVars, swVars>>

\* ------------------------------------------------- request context: getters

\* The keys of the context and of the response header the getters read.
RpcEventKey == "RpcEventKey"
RpcLoggerKey == "RpcLoggerKey"
RpcEntryNameKey == "RpcEntryNameKey"
RpcSpanKey == "RpcSpanKey"
RpcTracerKey == "RpcTracerKey"
RpcTracerProviderKey == "RpcTracerProviderKey"
RpcPropagatorKey == "RpcPropagatorKey"
RequestIdKey == "X-Request-Id"
TraceIdKey == "X-Trace-Id"

\* The defaults of the getters.
noopEvent == [kind |-> "event", noop |-> TRUE]
NoopLogger == [core |-> "nop", fields |-> <<>>]
noopSpan == [kind |-> "span", noop |-> TRUE]
noopTracer == [kind |-> "tracer", noop |-> TRUE]
noopTracerProvider == [kind |-> "provider", noop |-> TRUE]

\* gin.CreateTestContext(writer): nothing stored, no header set
CreateTestContext == [store |-> EmptyMap, header |-> EmptyMap]

\* What the interceptors store under each key, and the ids they set in the
\* header.
StoredValues ==
    { <<RpcEventKey, [kind |-> "event", noop |-> FALSE]>>,
      <<RpcLoggerKey, NoopLogger>>,
      <<RpcLoggerKey, [core |-> "zap", fields |-> <<>>]>>,
      <<RpcEntryNameKey, "ut-entry-name">>,
      <<RpcSpanKey, [kind |-> "span", noop |-> FALSE]>>,
      <<RpcTracerKey, [kind |-> "tracer", noop |-> FALSE]>>,
      <<RpcTracerProviderKey, [kind |-> "provider", noop |-> FALSE]>>,
      <<RpcPropagatorKey, [kind |-> "composite", formats |-> <<>>]>> }
HeaderValues ==
    { <<RequestIdKey, "ut-request-id">>, <<TraceIdKey, "ut-trace-id">> }

\* ctx.Get(key): the value and whether it is there
CtxHas(ctx, key) == ctx # NilPtr /\ key \in DOMAIN ctx.store

\* ctx.Writer.Header().Get(key)
HeaderGet(ctx, key) == IF key \in DOMAIN ctx.header THEN ctx.header[key] ELSE ""

GetEvent(ctx) == IF CtxHas(ctx, RpcEventKey) THEN ctx.store[RpcEventKey] ELSE noopEvent

GetRequestId(ctx) == IF ctx = NilPtr THEN "" ELSE HeaderGet(ctx, RequestIdKey)

GetTraceId(ctx) == IF ctx = NilPtr THEN "" ELSE HeaderGet(ctx, TraceIdKey)

\* logger.With(fields...): the no-op logger drops the fields
LoggerWith(lg, fields) ==
    IF lg.core = "nop" THEN lg ELSE [lg EXCEPT !.fields = @ \o fields]

\* GetLogger: the logger of the context with the request id and the trace
\* id attached when the header has them
GetLogger(ctx) ==
    IF CtxHas(ctx, RpcLoggerKey)
    THEN LoggerWith(ctx.store[RpcLoggerKey],
                    (IF GetRequestId(ctx) # ""
                     THEN <<[key |-> "requestId", value |-> GetRequestId(ctx)]>> ELSE <<>>)
                    \o
                    (IF GetTraceId(ctx) # ""
                     THEN <<[key |-> "traceId", value |-> GetTraceId(ctx)]>> ELSE <<>>))
    ELSE NoopLogger

GetEntryName(ctx) ==
    IF CtxHas(ctx, RpcEntryNameKey) THEN ctx.store[RpcEntryNameKey] ELSE ""

\* GetTraceSpan answering nil when the context has no span.
GetTraceSpanOrNil(ctx) == IF CtxHas(ctx, RpcSpanKey) THEN ctx.store[RpcSpanKey] ELSE NilPtr

GetTraceSpan(ctx) == IF CtxHas(ctx, RpcSpanKey) THEN ctx.store[RpcSpanKey] ELSE noopSpan

GetTracer(ctx) == IF CtxHas(ctx, RpcTracerKey) THEN ctx.store[RpcTracerKey] ELSE noopTracer

GetTracerProvider(ctx) ==
    IF CtxHas(ctx, RpcTracerProviderKey) THEN ctx.store[RpcTracerProviderKey]
    ELSE noopTracerProvider

GetTracerPropagator(ctx) ==
    IF CtxHas(ctx, RpcPropagatorKey) THEN ctx.store[RpcPropagatorKey] ELSE NilPtr

Getters ==
    {"GetEvent", "GetLogger", "GetRequestId", "GetTraceId", "GetEntryName",
     "GetTraceSpan", "GetTracer", "GetTracerProvider", "GetTracerPropagator"}

\* A context is created for the getters
CtxCreate ==
    /\ gctx = NilPtr
    /\ gctx' = CreateTestContext
    /\ lastGet' = NilPtr
    /\ UNCHANGED <<regVars, chainVars, timeoutVars, authVars, raceVars, shutdownVars, swVars>>

\* ctx.Set(key, value)
CtxSet(key, value) ==
    /\ gctx # NilPtr
    /\ key \notin DOMAIN gctx.store
    /\ gctx' = [gctx EXCEPT !.store = MapPut(@, key, value)]
    /\ lastGet' = NilPtr
    /\ UNCHANGED <<regVars, chainVars, timeoutVars, authVars, raceVars, shutdownVars, swVars>>

\* ctx.Writer.Header().Set(key, value)
CtxHeaderSet(key, value) ==
    /\ gctx # NilPtr
    /\ key \notin DOMAIN gctx.header
    /\ gctx' = [gctx EXCEPT !.header = MapPut(@, key, value)]
    /\ lastGet' = NilPtr
    /\ UNCHANGED <<regVars, chainVars, timeoutVars, authVars, raceVars, shutdownVars, swVars>>

\* One call of a getter with the context; the result is kept until the
\* context changes.
GetterCall(fn) ==
    /\ lastGet' = [fn |-> fn, ctx |-> gctx,
                   result |-> CASE fn = "GetEvent" -> GetEvent(gctx)
                                [] fn = "GetLogger" -> GetLogger(gctx)
                                [] fn = "GetRequestId" -> GetRequestId(gctx)
                                [] fn = "GetTraceId" -> GetTraceId(gctx)
                                [] fn = "GetEntryName" -> GetEntryName(gctx)
                                [] fn = "GetTraceSpan" -> GetTraceSpan(gctx)
                                [] fn = "GetTracer" -> GetTracer(gctx)
                                [] fn = "GetTracerProvider" -> GetTracerProvider(gctx)
                                [] fn = "GetTracerPropagator" -> GetTracerPropagator(gctx)]
    /\ UNCHANGED gctx
    /\ UNCHANGED <<regVars, chainVars, timeoutVars, authVars, raceVars, shutdownVars, swVars>>

\* ------------------------------------------------- swagger entry

MaxSwEntries == 2

SwEntryNameDefault == "GinSwDefault"

\* The directories that WithJsonPathSw names and the files in them, in the
\* order of ioutil.ReadDir.
JsonPathFiles(dir) ==
    CASE dir = "docs/greeter" -> << [name |-> "greeter.swagger.json", isDir |-> FALSE],
                                    [name |-> "notes.md", isDir |-> FALSE] >>
      [] dir = "docs/admin" -> << [name |-> "admin.swagger.json", isDir |-> FALSE],
                                  [name |-> "v1.json", isDir |-> TRUE] >>
      [] OTHER -> <<>>

\* path.Join(dir, name) for a directory path and a file name
PathJoin(dir, name) == TrimSuffix(dir, "/") \o "/" \o name

\* json.Marshal of a swUrlConfig
RECURSIVE MarshalUrls(_)
MarshalUrls(urls) ==
    IF urls = <<>> THEN ""
    ELSE "{\"name\":\"" \o Head(urls).Name \o "\",\"url\":\"" \o Head(urls).Url \o "\"}"
         \o (IF Len(urls) > 1 THEN "," ELSE "") \o MarshalUrls(Tail(urls))
Marshal(urlConfig) == "{\"urls\":[" \o MarshalUrls(urlConfig.Urls) \o "]}"

\* NewSwEntry up to initSwaggerConfig: the options applied, the path with
\* "/" on both sides, the name made up from the port when it is empty
SwBuildEntry(o) ==
    LET name == IF o.named THEN o.name ELSE SwEntryNameDefault
        path0 == IF o.path = "" THEN "sw" ELSE o.path
        path1 == IF HasPrefix(path0, "/") THEN path0 ELSE "/" \o path0
        path2 == IF HasSuffix(path1, "/") THEN path1 ELSE path1 \o "/"
    IN  [EntryName |-> IF Len(name) < 1 THEN "ginSwEntry-" \o Itoa(o.port) ELSE name,
         Path |-> path2, JsonPath |-> o.jsonPath, Port |-> o.port,
         EnableCommonService |-> o.enableCommonService]

\* listFilesWithSuffix: the swUrl of each .json file of the entry's JsonPath
RECURSIVE listFilesWithSuffix(_, _)
listFilesWithSuffix(entry, files) ==
    IF files = <<>> THEN <<>>
    ELSE LET file == Head(files)
             key == entry.EntryName \o "-" \o file.name
         IN  (IF ~file.isDir /\ HasSuffix(file.name, ".json")
              THEN <<[Name |-> key, Url |-> PathJoin(entry.Path, key)]>>
              ELSE <<>>)
             \o listFilesWithSuffix(entry, Tail(files))

\* initSwaggerConfig: the swUrlConfig of the entry, its files first, then
\* the common service
SwUrlConfig(entry) ==
    LET key == entry.EntryName \o "-rk-common.swagger.json" IN
    [Urls |-> listFilesWithSuffix(entry, JsonPathFiles(entry.JsonPath))
              \o (IF entry.EnableCommonService
                  THEN <<[Name |-> key, Url |-> PathJoin(entry.Path, key)]>>
                  ELSE <<>>)]

\* The files stored in swaggerJsonFiles for the urls.
RECURSIVE StoreJsonFiles(_, _)
StoreJsonFiles(m, urls) ==
    IF urls = <<>> THEN m
    ELSE StoreJsonFiles(MapPut(m, Head(urls).Name, "swagger"), Tail(urls))

\* NewSwEntry(opts...): the entry is built and initSwaggerConfig assigns
\* the marshalled swUrlConfig of this entry to swConfigFileContents
NewSwEntry(o) ==
    /\ Len(swEntries) < MaxSwEntries
    /\ LET entry == SwBuildEntry(o)
           urlConfig == SwUrlConfig(entry)
       IN  /\ swaggerJsonFiles' = StoreJsonFiles(swaggerJsonFiles, urlConfig.Urls)
           /\ swConfigFileContents' = Marshal(urlConfig)
           /\ swEntries' = Append(swEntries, [entry |-> entry, urls |-> urlConfig.Urls])
    /\ UNCHANGED swServed
    /\ UNCHANGED <<regVars, chainVars, timeoutVars, authVars, raceVars, shutdownVars,
                   getterVars>>

\* ConfigFileHandler for /sw/swagger-config.json: swConfigFileContents is
\* served
ServeSwaggerConfig ==
    /\ swEntries # <<>>
    /\ swServed' = [content |-> swConfigFileContents, entries |-> Len(swEntries)]
    /\ UNCHANGED <<swaggerJsonFiles, swConfigFileContents, swEntries>>
    /\ UNCHANGED <<regVars, chainVars, timeoutVars, authVars, raceVars, shutdownVars,
                   getterVars>>

\* ------------------------------------------------- specifications

Init ==
    /\ traceOptionsMap = EmptyMap
    /\ traceReturned = NilPtr
    /\ traceOptions = NilPtr
    /\ traceCalls = 0
    /\ metricsOptionsMap = EmptyMap
    /\ metricsFirst = EmptyMap
    /\ metricsBuilt = 0
    /\ registered = <<>>
    /\ observed = EmptyMap
    /\ lastLookup = NilPtr
    /\ pc = "idle"
    /\ req = NilPtr
    /\ reqCount = 0
    /\ panicking = NoPanic
    /\ event = NoEvent
    /\ logger = <<>>
    /\ resp = <<>>
    /\ ctxErrors = 0
    /\ selfPanic = FALSE
    /\ tpc = "idle"
    /\ hpc = "idle"
    /\ tEvent = NoTimeout
    /\ tCommitted = <<>>
    /\ tBuffer = <<>>
    /\ tCount = 0
    /\ tReq = NilPtr
    /\ tClock = 0
    /\ steps = <<>>
    /\ apc = "idle"
    /\ aReq = NilPtr
    /\ aResp = <<>>
    /\ aEvent = NoAuthEvent
    /\ aNext = 0
    /\ aCount = 0
    /\ wpc = [w \in Workers |-> "idle"]
    /\ wSet = [w \in Workers |-> NilPtr]
    /\ cMap = EmptyMap
    /\ cInserted = <<>>
    /\ cRegistered = <<>>
    /\ cAccess = {}
    /\ cRace = FALSE
    /\ shutdowns = EmptyMap
    /\ shutdownCalls = <<>>
    /\ gctx = NilPtr
    /\ lastGet = NilPtr
    /\ swaggerJsonFiles = EmptyMap
    /\ swConfigFileContents = ""
    /\ swEntries = <<>>
    /\ swServed = NilPtr

\* The option lists of the tracing constructions.
TraceOptionLists ==
    [named : {TRUE}, entryName : {"", "svcA", "svcB"}, entryType : {"gin"},
     exporter : {NilPtr, [kind |-> "file", id |-> 0]},
     processor : {NilPtr, [kind |-> "simple"]},
     provider : {NilPtr, [kind |-> "user"]},
     propagator : {NilPtr, [kind |-> "b3"]}]
    \cup
    [named : {FALSE}, entryName : {""}, entryType : {""},
     exporter : {NilPtr, [kind |-> "file", id |-> 0]},
     processor : {NilPtr, [kind |-> "simple"]},
     provider : {NilPtr, [kind |-> "user"]},
     propagator : {NilPtr, [kind |-> "b3"]}]

\* The option lists of the metrics constructions.
MetricsOptionLists ==
    [named : {TRUE}, entryName : {"", "svcA"}, entryType : {"", "grpc"},
     registerer : {NilRegisterer, "customRegisterer"}]
    \cup
    [named : {FALSE}, entryName : {""}, entryType : {""},
     registerer : {NilRegisterer}]

\* The option lists of the entries svcA and svcB, as their boot passes them.
EntryOptionLists ==
    [named : {TRUE}, entryName : {"svcA", "svcB"}, entryType : {"gin"},
     registerer : {NilRegisterer}]

\* The contexts handed to the accessors: nil, without a Request, without a
\* URL, without a Writer, without an entry name, with one that may be registered.
AccessorContexts ==
    {NilPtr} \cup
    [Request : {NilPtr,
                [Method |-> "GET", URL |-> NilPtr, RequestURI |-> "/svc/hello"],
                [Method |-> "GET", URL |-> [Path |-> "/svc/hello"],
                 RequestURI |-> "/svc/hello"]},
     Writer : {NilPtr, [status |-> 404]},
     entryName : {"", "svcA", "gin"},
     Errors : {0}]

\* The tracing registry.
NextTrace == \E o \in TraceOptionLists : newOptionSet(o)

SpecTrace == Init /\ [][NextTrace]_vars

\* The metrics registry and its accessors.
NextMetrics ==
    \/ \E o \in MetricsOptionLists : MetricsPromInterceptor(o)
    \/ \E ctx \in AccessorContexts : AccessorCall(ctx)

SpecMetrics == Init /\ [][NextMetrics]_vars

\* The entries svcA and svcB and the requests they serve.
Next ==
    \/ \E o \in EntryOptionLists : MetricsPromInterceptor(o)
    \/ StartRequest
    \/ PanicPre
    \/ LogPre
    \/ MetricsPre
    \/ HandlerReturns
    \/ HandlerPanics
    \/ MetricsPost
    \/ LogPost
    \/ PanicPost

Spec == Init /\ [][Next]_vars

\* The timeout interceptor, its timer and the worker of the next stage.
NextTimeout ==
    \/ TimeoutStart
    \/ TimeoutTick
    \/ TimeoutHandlerWrites
    \/ TimeoutHandlerReturns
    \/ TimeoutFinished
    \/ TimeoutExpired

SpecTimeout == Init /\ [][NextTimeout]_vars

\* The auth interceptor behind the log interceptor.
NextAuth ==
    \/ AuthStart
    \/ AuthLogPre
    \/ AuthInterceptor
    \/ AuthHandler
    \/ AuthLogPost

SpecAuth == Init /\ [][NextAuth]_vars

\* Constructions of the metrics interceptor racing with each other and with
\* a request.
NextRace ==
    \/ \E w \in Constructors, o \in EntryOptionLists : RaceBuild(w, o)
    \/ \E w \in Constructors : RaceCheckBegin(w)
    \/ \E w \in Constructors : RaceCheckEnd(w)
    \/ \E w \in Constructors : RaceInsertBegin(w)
    \/ \E w \in Constructors : RaceInsertEnd(w)
    \/ \E w \in Constructors : RaceInit(w)
    \/ \E w \in Readers : RaceLookupBegin(w)
    \/ \E w \in Readers, n \in {"svcA", "svcB"} : RaceLookupEnd(w, n)
    \/ RaceFatal

SpecRace == Init /\ [][NextRace]_vars

\* The option lists of the entries whose exporters are shut down: with the
\* default exporter or one file exporter, with or without a span processor
\* of their own.
ShutdownOptionLists ==
    [named : {TRUE}, entryName : {"svcA", "svcB"}, entryType : {"gin"},
     exporter : {NilPtr, [kind |-> "file", id |-> 0]},
     processor : {NilPtr, [kind |-> "simple"]},
     provider : {NilPtr}, propagator : {NilPtr}]

\* The tracing registry and its shutdown.
NextShutdown ==
    \/ \E o \in ShutdownOptionLists : newOptionSet(o)
    \/ ShutdownExporters

SpecShutdown == Init /\ [][NextShutdown]_vars

\* A request context, what the interceptors store in it, and the getters.
NextGetters ==
    \/ CtxCreate
    \/ \E kv \in StoredValues : CtxSet(kv[1], kv[2])
    \/ \E kv \in HeaderValues : CtxHeaderSet(kv[1], kv[2])
    \/ \E fn \in Getters : GetterCall(fn)

SpecGetters == Init /\ [][NextGetters]_vars

\* The option lists of the swagger entries.
SwOptionLists ==
    [named : {TRUE}, name : {"", "greeter", "admin"}, path : {"", "docs"},
     jsonPath : {"docs/greeter", "docs/admin"}, port : {8080},
     enableCommonService : BOOLEAN]
    \cup
    [named : {FALSE}, name : {""}, path : {""},
     jsonPath : {"docs/greeter"}, port : {8080}, enableCommonService : BOOLEAN]

\* The swagger entries of one process and the config file they serve.
NextSw ==
    \/ \E o \in SwOptionLists : NewSwEntry(o)
    \/ ServeSwaggerConfig

SpecSw == Init /\ [][NextSw]_vars

\* ------------------------------------------------- properties

\* C1: every panic of a downstream stage (a structured error response, an
\* error, any other value) is recovered by the panic interceptor, which
\* writes one response with status 500 and a structured error body; the
\* panic does not leave the interceptor.
C1_EveryPanicAnswered500 ==
    (pc = "done" /\ req.panic # NoPanic /\ req.panic.type # "nil") =>
        /\ panicking = NoPanic
        /\ Len(resp) = 1
        /\ resp[1].status = 500
        /\ resp[1].body # NilPtr
        /\ "Err" \in DOMAIN resp[1].body

\* C2: the recovery handler of the panic interceptor never panics itself,
\* whatever value it recovers and whether or not the context carries an
\* event and a logger.
C2_RecoveryNeverPanics == ~selfPanic

\* C3: a call of newOptionSet returns the option set registered under its
\* entry name, so a second call with the same name returns the instance of
\* the first call.
C3_SameNameSameInstance ==
    traceReturned # NilPtr =>
        traceReturned = traceOptionsMap[traceReturned.EntryName]

\* C4: the metrics registry holds, for each entry name, the option set
\* built by the first construction for that name, and GetOptionSet and
\* GetServerMetricsSet for a context of that entry return that instance.
C4_FirstRegistrationWins ==
    /\ metricsOptionsMap = metricsFirst
    /\ ( /\ lastLookup # NilPtr
         /\ lastLookup.at = metricsBuilt
         /\ lastLookup.ctx # NilPtr
         /\ lastLookup.ctx.entryName \in DOMAIN metricsFirst ) =>
        LET first == metricsFirst[lastLookup.ctx.entryName] IN
        /\ lastLookup.fn = "GetOptionSet" => lastLookup.result = first
        /\ lastLookup.fn = "GetServerMetricsSet" =>
               lastLookup.result = first.MetricsSet

\* A second construction for svcA has been made and the accessor still
\* answers with the metrics set of the first.
C4_Witness ==
    /\ metricsBuilt = 2
    /\ DOMAIN metricsOptionsMap = {"svcA"}
    /\ lastLookup # NilPtr
    /\ lastLookup.at = 2
    /\ lastLookup.fn = "GetServerMetricsSet"
    /\ lastLookup.ctx # NilPtr
    /\ lastLookup.ctx.entryName = "svcA"
    /\ lastLookup.result # NilPtr
    /\ lastLookup.result.id = 1

\* C5: no option set is ever registered under the empty entry name, in the
\* tracing registry or in the metrics registry.
C5_NoEmptyEntryName ==
    /\ "" \notin DOMAIN traceOptionsMap
    /\ "" \notin DOMAIN metricsOptionsMap

\* C6, as claimed: a request to "/sw", below "/sw/", below "/rk/v1/assets"
\* or to "/rk/v1/tv" changes no instrument of any metrics set.
C6_DocPathsNeverObserved ==
    [][ ( /\ pc \notin {"idle", "done"}
          /\ \/ req.RequestURI = "/sw"
             \/ HasPrefix(req.RequestURI, "/sw/")
             \/ HasPrefix(req.RequestURI, "/rk/v1/assets")
             \/ HasPrefix(req.RequestURI, "/rk/v1/tv") ) =>
        \A id \in DOMAIN observed : observed'[id] = observed[id] ]_vars

\* C6, amended: a request whose URI starts with "/sw/", "/rk/v1/assets" or
\* "/rk/v1/tv" changes no instrument of any metrics set.
C6_IgnoredPrefixesNeverObserved ==
    [][ ( /\ pc \notin {"idle", "done"}
          /\ \/ HasPrefix(req.RequestURI, "/sw/")
             \/ HasPrefix(req.RequestURI, "/rk/v1/assets")
             \/ HasPrefix(req.RequestURI, "/rk/v1/tv") ) =>
        \A id \in DOMAIN observed : observed'[id] = observed[id] ]_vars

\* A request for the swagger config of a registered entry has passed the
\* metrics interceptor and nothing was observed.
C6_Witness ==
    /\ pc = "logPost"
    /\ panicking = NoPanic
    /\ reqCount = 1
    /\ req.RequestURI = "/sw/swagger-config.json"
    /\ req.entryName \in DOMAIN metricsOptionsMap
    /\ \A id \in DOMAIN observed : observed[id] = NoCounts

C8_EntryIsolation ==
    [][ \A a, b \in {"svcA", "svcB"} :
          ( /\ a # b
            /\ pc \notin {"idle", "done"}
            /\ req.logEntry = a
            /\ b \in DOMAIN metricsOptionsMap ) =>
          observed'[metricsOptionsMap[b].MetricsSet.id]
              = observed[metricsOptionsMap[b].MetricsSet.id] ]_vars

\* Both entries are registered, a request of svcA has passed the metrics
\* interceptor: it is counted in svcA's set and svcB's set is untouched.
C8_Witness ==
    /\ pc = "logPost"
    /\ panicking = NoPanic
    /\ reqCount = 1
    /\ req.logEntry = "svcA"
    /\ DOMAIN metricsOptionsMap = {"svcA", "svcB"}
    /\ observed[metricsOptionsMap["svcA"].MetricsSet.id][ResCode] = 1
    /\ observed[metricsOptionsMap["svcB"].MetricsSet.id] = NoCounts

\* C9: a request that passes the log interceptor has one event opened and,
\* when it completes, that event closed once, on the normal return, after a
\* recorded error and after a panic.
C9_OneEventPerRequest ==
    /\ event.opened <= 1
    /\ event.closed <= event.opened
    /\ (pc = "done" /\ req.logEntry # "") =>
           (event.opened = 1 /\ event.closed = 1)

\* A request whose handler panicked has completed: the panic interceptor
\* answered and the event was closed once.
C9_Witness ==
    /\ pc = "done"
    /\ req.logEntry # ""
    /\ req.panic # NoPanic
    /\ panicking = NoPanic
    /\ Len(resp) = 1
    /\ event.opened = 1
    /\ event.closed = 1

\* C10: once the timeout interceptor has seen its duration over, the
\* response committed is the 408 timeout response and stays the only one,
\* and the event has the counter timeout = 1, whatever the next stage does
\* afterwards; no request ever has two responses committed.
C10_TimeoutCommitsOnce ==
    /\ Len(tCommitted) <= 1
    /\ tpc = "timedOut" =>
           (tCommitted = <<TimeoutResponse>> /\ tEvent.timeout = 1)

\* The next stage wrote and returned after the expiry; its output was
\* dropped and the client has the timeout response.
C10_Witness ==
    /\ tpc = "timedOut"
    /\ hpc = "returned"
    /\ tBuffer.dropped = 1
    /\ tCommitted = <<TimeoutResponse>>
    /\ tEvent.timeout = 1

\* C11: a request that carries no credential the auth interceptor accepts
\* is answered 401 with the body (401, "Unauthorized"), whose message is
\* "Missing authorization" when it carries no credential at all; the next
\* stage is not invoked and the event records resCode = 401.
C11_Unauthorized401 ==
    ( /\ apc \in {"logPost", "done"}
      /\ aReq.Authorization \notin {"Basic cmstdXNlcjpyay1wYXNz", "Bearer rk-token"}
      /\ aReq.ApiKey # "rk-api-key" ) =>
        /\ Len(aResp) = 1
        /\ aResp[1].status = 401
        /\ aResp[1].body.Err.Code = 401
        /\ aResp[1].body.Err.Status = "Unauthorized"
        /\ aResp[1].body.Err.Details = <<>>
        /\ (aReq.Authorization = "" /\ aReq.ApiKey = "") =>
               aResp[1].body.Err.Message = "Missing authorization"
        /\ aNext = 0
        /\ apc = "done" => aEvent.resCode = 401

\* A request without any credential has completed with the 401 response.
C11_Witness ==
    /\ apc = "done"
    /\ aReq.Authorization = ""
    /\ aReq.ApiKey = ""
    /\ Len(aResp) = 1
    /\ aResp[1].status = 401
    /\ aResp[1].body.Err.Message = "Missing authorization"
    /\ aNext = 0
    /\ aEvent.resCode = 401

\* C12: whatever the interleaving of constructions and lookups, the registry
\* map is never accessed while another worker writes it, one option set is
\* stored per entry name, and the instruments of an entry are registered
\* once.
C12_GetOrCreateSafe ==
    /\ ~cRace
    /\ \A i, j \in 1..Len(cInserted) :
           cInserted[i].EntryName = cInserted[j].EntryName => i = j
    /\ \A i, j \in 1..Len(cRegistered) :
           ( /\ cRegistered[i].instrument = cRegistered[j].instrument
             /\ \E a, b \in 1..Len(cInserted) :
                   /\ cInserted[a].MetricsSet.id = cRegistered[i].set
                   /\ cInserted[b].MetricsSet.id = cRegistered[j].set
                   /\ cInserted[a].EntryName = cInserted[b].EntryName ) => i = j

\* C13: after one call of ShutdownExporters, the exporter of every option
\* set that was in the tracing registry at the call has been shut down
\* exactly once.
C13_EveryExporterShutDownOnce ==
    Len(shutdownCalls) = 1 =>
        \A n \in DOMAIN traceOptionsMap :
            traceOptionsMap[n].id <= shutdownCalls[1].at =>
                /\ traceOptionsMap[n].Exporter \in DOMAIN shutdowns
                /\ shutdowns[traceOptionsMap[n].Exporter] = 1

\* C14: GetTracerPropagator returns a non-nil propagator when the context
\* is nil and when no propagator is stored in it.
C14_PropagatorNeverNil ==
    (lastGet # NilPtr /\ lastGet.fn = "GetTracerPropagator") =>
        lastGet.result # NilPtr

\* C15, as claimed: each of the eight getters returns the value stored for
\* its key when there is one, and its default (no-op event, no-op logger,
\* "", a non-nil no-op span, tracer, provider) when the key is absent or
\* the context nil.
C15_GettersReturnStoredOrDefault ==
    (lastGet # NilPtr /\ lastGet.fn # "GetTracerPropagator") =>
        LET ctx == lastGet.ctx
            r == lastGet.result
            Stored(key) == ctx # NilPtr /\ key \in DOMAIN ctx.store
            InHeader(key) == ctx # NilPtr /\ key \in DOMAIN ctx.header
        IN  /\ lastGet.fn \in {"GetEvent", "GetLogger", "GetTraceSpan", "GetTracer",
                               "GetTracerProvider"} => r # NilPtr
            /\ lastGet.fn = "GetEvent" =>
                   r = IF Stored("RpcEventKey") THEN ctx.store["RpcEventKey"]
                       ELSE [kind |-> "event", noop |-> TRUE]
            /\ lastGet.fn = "GetLogger" =>
                   r = IF Stored("RpcLoggerKey") THEN ctx.store["RpcLoggerKey"]
                       ELSE [core |-> "nop", fields |-> <<>>]
            /\ lastGet.fn = "GetRequestId" =>
                   r = IF InHeader("X-Request-Id") THEN ctx.header["X-Request-Id"] ELSE ""
            /\ lastGet.fn = "GetTraceId" =>
                   r = IF InHeader("X-Trace-Id") THEN ctx.header["X-Trace-Id"] ELSE ""
            /\ lastGet.fn = "GetEntryName" =>
                   r = IF Stored("RpcEntryNameKey") THEN ctx.store["RpcEntryNameKey"] ELSE ""
            /\ lastGet.fn = "GetTraceSpan" =>
                   r = IF Stored("RpcSpanKey") THEN ctx.store["RpcSpanKey"]
                       ELSE [kind |-> "span", noop |-> TRUE]
            /\ lastGet.fn = "GetTracer" =>
                   r = IF Stored("RpcTracerKey") THEN ctx.store["RpcTracerKey"]
                       ELSE [kind |-> "tracer", noop |-> TRUE]
            /\ lastGet.fn = "GetTracerProvider" =>
                   r = IF Stored("RpcTracerProviderKey") THEN ctx.store["RpcTracerProviderKey"]
                       ELSE [kind |-> "provider", noop |-> TRUE]

\* C15, amended: as above, except that GetLogger returns the stored logger
\* with the request id and the trace id of the header attached as fields
\* (the stored logger itself when the header has neither, or when it is the
\* no-op logger).
C15_GettersTotal ==
    (lastGet # NilPtr /\ lastGet.fn # "GetTracerPropagator") =>
        LET ctx == lastGet.ctx
            r == lastGet.result
            Stored(key) == ctx # NilPtr /\ key \in DOMAIN ctx.store
            InHeader(key) == ctx # NilPtr /\ key \in DOMAIN ctx.header
        IN  /\ lastGet.fn \in {"GetEvent", "GetLogger", "GetTraceSpan", "GetTracer",
                               "GetTracerProvider"} => r # NilPtr
            /\ lastGet.fn = "GetEvent" =>
                   r = IF Stored("RpcEventKey") THEN ctx.store["RpcEventKey"]
                       ELSE [kind |-> "event", noop |-> TRUE]
            /\ (lastGet.fn = "GetLogger" /\ ~Stored("RpcLoggerKey")) =>
                   r = [core |-> "nop", fields |-> <<>>]
            /\ (lastGet.fn = "GetLogger" /\ Stored("RpcLoggerKey")) =>
                   /\ r.core = ctx.store["RpcLoggerKey"].core
                   /\ r.core = "nop" => r = ctx.store["RpcLoggerKey"]
                   /\ r.core # "nop" =>
                       /\ Len(r.fields) = Cardinality(DOMAIN ctx.header)
                       /\ InHeader("X-Request-Id") =>
                              r.fields[1] = [key |-> "requestId", value |-> "ut-request-id"]
                       /\ InHeader("X-Trace-Id") =>
                              r.fields[Len(r.fields)] =
                                  [key |-> "traceId", value |-> "ut-trace-id"]
            /\ lastGet.fn = "GetRequestId" =>
                   r = IF InHeader("X-Request-Id") THEN ctx.header["X-Request-Id"] ELSE ""
            /\ lastGet.fn = "GetTraceId" =>
                   r = IF InHeader("X-Trace-Id") THEN ctx.header["X-Trace-Id"] ELSE ""
            /\ lastGet.fn = "GetEntryName" =>
                   r = IF Stored("RpcEntryNameKey") THEN ctx.store["RpcEntryNameKey"] ELSE ""
            /\ lastGet.fn = "GetTraceSpan" =>
                   r = IF Stored("RpcSpanKey") THEN ctx.store["RpcSpanKey"]
                       ELSE [kind |-> "span", noop |-> TRUE]
            /\ lastGet.fn = "GetTracer" =>
                   r = IF Stored("RpcTracerKey") THEN ctx.store["RpcTracerKey"]
                       ELSE [kind |-> "tracer", noop |-> TRUE]
            /\ lastGet.fn = "GetTracerProvider" =>
                   r = IF Stored("RpcTracerProviderKey") THEN ctx.store["RpcTracerProviderKey"]
                       ELSE [kind |-> "provider", noop |-> TRUE]

\* GetLogger was called on a context that holds a logger and both ids: the
\* logger returned carries the ids.
C15_Witness ==
    /\ lastGet # NilPtr
    /\ lastGet.fn = "GetLogger"
    /\ lastGet.ctx # NilPtr
    /\ "RpcLoggerKey" \in DOMAIN lastGet.ctx.store
    /\ lastGet.ctx.store["RpcLoggerKey"].core = "zap"
    /\ DOMAIN lastGet.ctx.header = {"X-Request-Id", "X-Trace-Id"}
    /\ Len(lastGet.result.fields) = 2

\* C16: GetServerDurationMetrics, GetServerErrorMetrics,
\* GetServerResCodeMetrics and GetServerMetricsSet return nil when the
\* context is nil or the entry name it carries has no registered option
\* set, and otherwise the metrics set of that entry, or the non-nil
\* instrument of that set that the accessor is for.
C16_AccessorsNilOrInstrument ==
    ( /\ lastLookup # NilPtr
      /\ lastLookup.fn \in {"GetServerDurationMetrics", "GetServerErrorMetrics",
                            "GetServerResCodeMetrics", "GetServerMetricsSet"} ) =>
        LET ctx == lastLookup.ctx
            r == lastLookup.result
        IN  /\ (ctx = NilPtr \/ ctx.entryName \notin DOMAIN metricsOptionsMap) =>
                   r = NilPtr
            /\ ( /\ ctx # NilPtr
                 /\ lastLookup.at = metricsBuilt
                 /\ ctx.entryName \in DOMAIN metricsOptionsMap ) =>
                   LET ms == metricsOptionsMap[ctx.entryName].MetricsSet IN
                   /\ r # NilPtr
                   /\ lastLookup.fn = "GetServerMetricsSet" => r = ms
                   /\ lastLookup.fn # "GetServerMetricsSet" => r.set = ms.id
                   /\ lastLookup.fn = "GetServerDurationMetrics" => r.instrument = "elapsedNano"
                   /\ lastLookup.fn = "GetServerErrorMetrics" => r.instrument = "errors"
                   /\ lastLookup.fn = "GetServerResCodeMetrics" => r.instrument = "resCode"

\* With an entry registered, GetServerDurationMetrics was called with a nil
\* context and returned nil.
C16_Witness ==
    /\ DOMAIN metricsOptionsMap # {}
    /\ lastLookup # NilPtr
    /\ lastLookup.fn = "GetServerDurationMetrics"
    /\ lastLookup.ctx = NilPtr
    /\ lastLookup.result = NilPtr

\* C17: the response written for a recovered panic carries the recovered
\* value itself when that is a structured error response, the wrapping of
\* the error when it is an error, and otherwise a new structured error
\* response whose message is the string form of the value.
C17_PanicResponseByKind ==
    (pc = "done" /\ req.panic # NoPanic /\ resp # <<>>) =>
        LET body == resp[Len(resp)].body
            v == req.panic
        IN  /\ (v.type = "*ErrorResp" /\ ~v.isNil) =>
                   body = [Err |-> [Code |-> 418, Status |-> "I'm a teapot",
                                    Message |-> "teapot", Details |-> <<>>]]
            /\ v.type = "error" =>
                   body = [Err |-> [Code |-> 500, Status |-> "Internal Server Error",
                                    Message |-> "db down", Details |-> <<>>]]
            /\ v.type = "string" =>
                   body = [Err |-> [Code |-> 500, Status |-> "Internal Server Error",
                                    Message |-> "boom", Details |-> <<>>]]
            /\ v.type = "int" =>
                   body = [Err |-> [Code |-> 500, Status |-> "Internal Server Error",
                                    Message |-> "42", Details |-> <<>>]]
            /\ v.type = "nil" =>
                   body = [Err |-> [Code |-> 500, Status |-> "Internal Server Error",
                                    Message |-> "panic called with nil argument",
                                    Details |-> <<>>]]

\* A handler panicked with a structured error response and the client got
\* that response.
C17_Witness ==
    /\ pc = "done"
    /\ req.panic # NoPanic
    /\ req.panic.type = "*ErrorResp"
    /\ Len(resp) = 1
    /\ resp[1].status = 500
    /\ resp[1].body.Err.Code = 418

\* C18: after a recovered panic the event of the request has the counter
\* "panic" set once and the resulting error added, the logger has one entry
\* at error severity, and the 500 response is written; after a request
\* without panic the event has no counter and no error, nothing is logged
\* and the only response is the handler's.
C18_PanicEffects ==
    /\ (pc = "done" /\ req.panic # NoPanic /\ req.panic.type # "nil") =>
        /\ Len(resp) = 1
        /\ resp[1].status = 500
        /\ req.logEntry # "" =>
            /\ event.counters = <<"panic">>
            /\ Len(event.errs) = 1
            /\ event.errs[1] = resp[1].body.Err
            /\ Len(logger) = 1
            /\ logger[1].level = "error"
    /\ (pc = "done" /\ req.panic = NoPanic) =>
        /\ event.counters = <<>>
        /\ event.errs = <<>>
        /\ logger = <<>>
        /\ Len(resp) = 1
        /\ resp[1].status # 500

\* C19: the option set newOptionSet returns has an exporter, a processor,
\* a provider, a tracer and a propagator, whatever options were given; the
\* exporter is the no-op exporter of this call when none was given, and
\* the propagator the composite of trace-context and baggage when none was
\* given.
C19_OptionSetComplete ==
    traceReturned # NilPtr =>
        /\ traceReturned.Exporter # NilPtr
        /\ traceReturned.Processor # NilPtr
        /\ traceReturned.Provider # NilPtr
        /\ traceReturned.Tracer # NilPtr
        /\ traceReturned.Propagator # NilPtr
        /\ traceOptions.exporter = NilPtr =>
               traceReturned.Exporter = [kind |-> "noop", id |-> traceReturned.id]
        /\ traceOptions.propagator = NilPtr =>
               traceReturned.Propagator =
                   [kind |-> "composite", formats |-> <<"tracecontext", "baggage">>]

\* newOptionSet was called with a span processor and nothing else: the set
\* has the no-op exporter and the default propagator.
C19_Witness ==
    /\ traceReturned # NilPtr
    /\ traceOptions.exporter = NilPtr
    /\ traceOptions.processor # NilPtr
    /\ traceOptions.provider = NilPtr
    /\ traceOptions.propagator = NilPtr
    /\ traceReturned.Exporter.kind = "noop"
    /\ traceReturned.Propagator.kind = "composite"
    /\ traceReturned.Tracer # NilPtr

\* C20: in the stages a request has passed, each interceptor's pre-logic
\* comes before the next stage and its post-logic after the next stage has
\* returned or unwound: panic, log and metrics enter in this order, the
\* handler runs after all of them, the metrics interceptor reads the
\* response code and the elapsed time only after the handler has returned,
\* and the post-logic runs in the reverse order.
C20_StackDiscipline ==
    LET At(l) == {i \in 1..Len(steps) : steps[i] = l}
        Before(a, b) == \A j \in At(b) : \E i \in At(a) : i < j
        Handler == At("handlerReturned") \cup At("handlerPanicked")
        AfterHandler(b) == \A j \in At(b) : \E i \in Handler : i < j
        Pre == At("panicPre") \cup At("logPre") \cup At("metricsPre")
    IN  /\ \A l \in {"panicPre", "logPre", "metricsPre", "handlerReturned",
                     "handlerPanicked", "metricsPost", "logPost", "panicPost"} :
               Cardinality(At(l)) <= 1
        /\ Before("panicPre", "logPre")
        /\ Before("panicPre", "metricsPre")
        /\ At("logPre") # {} => Before("logPre", "metricsPre")
        /\ \A h \in Handler : \E i \in At("metricsPre") : i < h
        /\ \A h \in Handler : \A i \in Pre : i < h
        /\ Before("handlerReturned", "metricsPost")
        /\ AfterHandler("logPost")
        /\ AfterHandler("panicPost")
        /\ Before("logPre", "logPost")
        /\ \A i \in At("metricsPost") : \A j \in At("logPost") \cup At("panicPost") : i < j
        /\ \A i \in At("logPost") : \A j \in At("panicPost") : i < j
        /\ pc = "done" => (Len(steps) > 0 /\ steps[Len(steps)] = "panicPost")

\* A request has passed the whole chain and back.
C20_Witness ==
    /\ pc = "done"
    /\ steps = <<"panicPre", "logPre", "metricsPre", "handlerReturned", "metricsPost",
                 "logPost", "panicPost">>

\* C21: when the next stage has returned normally for a request whose URI
\* is not left out and whose context names a registered entry, the metrics
\* interceptor adds one latency observation and one response-code count to
\* that entry's set, and one error count exactly when the chain recorded an
\* error; no other step of a request changes an instrument.
C21_ObservedOncePerRequest ==
    [][ /\ ( /\ pc = "metricsPost"
             /\ pc' # "metricsPost"
             /\ ~HasPrefix(req.RequestURI, "/rk/v1/assets")
             /\ ~HasPrefix(req.RequestURI, "/rk/v1/tv")
             /\ ~HasPrefix(req.RequestURI, "/sw/")
             /\ req.entryName \in DOMAIN metricsOptionsMap ) =>
            LET id == metricsOptionsMap[req.entryName].MetricsSet.id IN
            /\ observed'[id]["elapsedNano"] = observed[id]["elapsedNano"] + 1
            /\ observed'[id]["resCode"] = observed[id]["resCode"] + 1
            /\ observed'[id]["errors"] =
                   observed[id]["errors"] + (IF ctxErrors > 0 THEN 1 ELSE 0)
            /\ \A other \in DOMAIN observed \ {id} : observed'[other] = observed[other]
        /\ pc # "metricsPost" =>
            \A id \in DOMAIN observed : observed'[id] = observed[id] ]_vars

\* A request of svcA whose handler recorded an error has passed the metrics
\* interceptor: each of the three instruments of svcA's set has one count.
C21_Witness ==
    /\ pc = "logPost"
    /\ panicking = NoPanic
    /\ reqCount = 1
    /\ ctxErrors = 1
    /\ req.entryName = "svcA"
    /\ "svcA" \in DOMAIN metricsOptionsMap
    /\ observed[metricsOptionsMap["svcA"].MetricsSet.id] =
           [elapsedNano |-> 1, errors |-> 1, resCode |-> 1]

\* C22: after any sequence of constructions, each of the three instruments
\* is registered once for every entry name of the registry and never for
\* another set: a construction for a name that is present registers
\* nothing.
C22_InstrumentsRegisteredOnce ==
    /\ Len(registered) = 3 * Cardinality(DOMAIN metricsOptionsMap)
    /\ \A n \in DOMAIN metricsOptionsMap :
        \A inst \in {"elapsedNano", "errors", "resCode"} :
            Cardinality({i \in 1..Len(registered) :
                            registered[i] = [set |-> metricsOptionsMap[n].MetricsSet.id,
                                             instrument |-> inst]}) = 1

\* Two constructions were made for one entry name and its instruments are
\* registered once.
C22_Witness ==
    /\ metricsBuilt = 2
    /\ Cardinality(DOMAIN metricsOptionsMap) = 1
    /\ Len(registered) = 3
    /\ \A i \in 1..3 : registered[i].set = 1

\* C23: when a request to a URI that is not left out, served by an entry
\* with a metrics interceptor, has completed, one latency observation and
\* one response-code count have been recorded for it, whether the handler
\* returned, recorded an error or panicked.
C23_ObservedHoweverHandlerEnds ==
    ( /\ pc = "done"
      /\ reqCount = 1
      /\ ~HasPrefix(req.RequestURI, "/rk/v1/assets")
      /\ ~HasPrefix(req.RequestURI, "/rk/v1/tv")
      /\ ~HasPrefix(req.RequestURI, "/sw/")
      /\ req.entryName = req.metricsEntry ) =>
        LET id == metricsOptionsMap[req.metricsEntry].MetricsSet.id IN
        /\ observed[id]["elapsedNano"] = 1
        /\ observed[id]["resCode"] = 1

\* C24: the metrics interceptor constructed for entry E records a request
\* in E's metrics set, whatever entry name the context carries and whether
\* or not it carries one.
C24_RecordedInOwnSet ==
    [][ ( /\ pc = "metricsPost"
          /\ pc' # "metricsPost"
          /\ ~HasPrefix(req.RequestURI, "/rk/v1/assets")
          /\ ~HasPrefix(req.RequestURI, "/rk/v1/tv")
          /\ ~HasPrefix(req.RequestURI, "/sw/") ) =>
        LET id == metricsOptionsMap[req.metricsEntry].MetricsSet.id IN
        /\ observed'[id]["elapsedNano"] = observed[id]["elapsedNano"] + 1
        /\ observed'[id]["resCode"] = observed[id]["resCode"] + 1 ]_vars

\* C25: after a ShutdownExporters call, the exporter of the option set
\* that the last newOptionSet before it returned has been shut down, also
\* when that call was a second construction for a registered name.
C25_ReturnedExporterShutDown ==
    ( /\ traceReturned # NilPtr
      /\ Len(shutdownCalls) > 0
      /\ shutdownCalls[Len(shutdownCalls)].at = traceCalls ) =>
        /\ traceReturned.Exporter \in DOMAIN shutdowns
        /\ shutdowns[traceReturned.Exporter] >= 1

\* C26: the swagger-config.json served lists the url of every swagger
\* JSON file of every swagger entry constructed before, the earlier entries
\* included.
C26_ConfigListsEveryEntry ==
    swServed # NilPtr =>
        \A e \in 1..swServed.entries :
            \A u \in 1..Len(swEntries[e].urls) :
                LET needle == "\"url\":\"" \o swEntries[e].urls[u].Url \o "\""
                    hay == swServed.content
                IN  \E i \in 1..Len(hay) :
                        /\ i + Len(needle) - 1 <= Len(hay)
                        /\ SubSeq(hay, i, i + Len(needle) - 1) = needle

====
